---- MODULE Spec2Model ----
(***************************************************************************)
(* Invoice watcher (invoice_watcher.py and invoice_watcher2.py): the       *)
(* ledger workbook Invoice_Data.xlsx, the Input and Processed directories  *)
(* and process_file, stepped at every access to the workbook so that an    *)
(* external application locking the file can interleave; the startup scan  *)
(* of the main thread and the observer thread that dispatches the created  *)
(* events; extract_particular and extract_amount as operators.             *)
(*                                                                         *)
(* Python strings are tuples of one-character strings, so that parsing a   *)
(* text cell as a number and printing a number as text are computed.      *)
(* Numbers are whole numbers (the documents' amounts are multiples of 10,  *)
(* which keeps the 10% and 90% derivations whole).                         *)
(***************************************************************************)
EXTENDS Integers, Sequences, FiniteSets, TLC

(***************************** bounds **************************************)
\* Completed df.to_excel calls of save_excel allowed in one behaviour.
MaxSaves == 3
\* Documents put into the Input directory in one behaviour.
MaxDrops == 2
\* Times the operator may change the workbook by hand.
MaxEdits == 1

(***************************** text ****************************************)
DigitChars == <<"0", "1", "2", "3", "4", "5", "6", "7", "8", "9">>

IsDigit(c) == \E i \in 1..10 : DigitChars[i] = c

DigitVal(c) == (CHOOSE i \in 1..10 : DigitChars[i] = c) - 1

\* float(s) / int(s) for the strings pandas.lib.maybe_convert_numeric meets
\* here: a non-empty run of decimal digits parses, anything holding another
\* character of the alphabets below does not.
IsNumericStr(s) == Len(s) > 0 /\ \A i \in 1..Len(s) : IsDigit(s[i])

RECURSIVE ParseInt(_)
ParseInt(s) ==
    IF Len(s) = 0 THEN 0
    ELSE ParseInt(SubSeq(s, 1, Len(s) - 1)) * 10 + DigitVal(s[Len(s)])

\* str(n) of a non-negative int.
RECURSIVE IntText(_)
IntText(n) ==
    IF n < 10 THEN <<DigitChars[n + 1]>>
    ELSE IntText(n \div 10) \o <<DigitChars[(n % 10) + 1]>>

\* str(x) of a float64 holding the whole number n: "100001.0".
FloatText(n) == IntText(n) \o <<".", "0">>

NanText == <<"n", "a", "n">>

TOTAL == <<"T", "O", "T", "A", "L">>

(***************************** cells and rows ******************************)
\* A cell value: empty (None / NaN), a string, a number, or a SUM formula.
E == [t |-> "e", s |-> <<>>, n |-> 0, m |-> 0]
S(str) == [t |-> "s", s |-> str, n |-> 0, m |-> 0]
N(num) == [t |-> "n", s |-> <<>>, n |-> num, m |-> 0]
\* f"=SUM({col}{first}:{col}{last})"
SumFormula(col, first, last) == [t |-> "f", s |-> <<col>>, n |-> last, m |-> first]

NCols == 9
Cols == 1..NCols

EmptyRow == [c \in Cols |-> E]

\* Column positions of HEADERS.
ColSrNo == 1
ColInvDate == 2
ColInvNo == 3
ColRefNo == 4
ColParticular == 5
ColAmount == 6
ColTDS == 7
ColClear == 8
ColComment == 9

HEADERS ==
    << <<"S", "r", ".", "N", "o">>,
       <<"I", "n", "v", "o", "i", "c", "e", " ", "D", "a", "t", "e">>,
       <<"I", "n", "v", "o", "i", "c", "e", " ", "N", "o">>,
       <<"R", "e", "f", " ", "N", "o">>,
       <<"P", "a", "r", "t", "i", "c", "u", "l", "a", "r">>,
       <<"A", "m", "o", "u", "n", "t">>,
       <<"T", "D", "S", " ", "(", "1", "0", "%", ")">>,
       <<"C", "l", "e", "a", "r", " ", "A", "m", "o", "u", "n", "t">>,
       <<"C", "o", "m", "m", "e", "n", "t">> >>

PAYMENT_HEADERS ==
    << <<"S", "r", ".", "N", "o">>,
       <<"P", "a", "y", "m", "e", "n", "t", " ", "D", "a", "t", "e">>,
       <<"A", "m", "o", "u", "n", "t", "-", "t", "o", "-",
         "A", "c", "c", "o", "u", "n", "t">>,
       <<"P", "a", "i", "d">>,
       <<"T", "D", "S", " ", "D", "e", "p", "o", "s", "i", "t", "e", "d">>,
       <<"T", "o", "t", "a", "l">> >>

PaymentMade == <<"P", "a", "y", "m", "e", "n", "t", " ", "M", "a", "d", "e">>

\* The example payments table of process_file (invoice_watcher2.py).
Pay1Date == <<"1", "5", "-", "J", "a", "n", "-", "2", "0", "2", "6">>
Pay2Date == <<"2", "0", "-", "J", "a", "n", "-", "2", "0", "2", "6">>

ExamplePayments ==
    << <<N(1), S(Pay1Date), N(5000), N(4500), N(500), N(5000)>>,
       <<N(2), S(Pay2Date), N(6000), N(5400), N(600), N(6000)>> >>

(***************************** pandas / openpyxl ***************************)
\* A worksheet is the sequence of its rows, row 1 first; ws.max_row is its
\* length (every row up to the last cell written exists in the sequence).
HeaderRow == [c \in Cols |-> S(HEADERS[c])]

\* What DataFrame.to_excel stores for a value: NaN and "" both leave the
\* cell without a value.
WriteCell(v) == IF v.t = "e" \/ (v.t = "s" /\ Len(v.s) = 0) THEN E ELSE v

\* df.to_excel(EXCEL, index=False): a new workbook, the header row and one
\* row per row of df, in order; the index labels are not written.
ToExcel(df) ==
    <<HeaderRow>> \o [i \in 1..Len(df.rows) |-> [c \in Cols |-> WriteCell(df.rows[i][c])]]

\* What pandas reads from a cell: a formula written by openpyxl has no
\* cached value, so it reads as empty.
ReadCell(v) == IF v.t = "f" THEN E ELSE v

\* The parser's type inference on one column (maybe_convert_numeric): when
\* every value is empty, a number or a string that parses as a number, the
\* column becomes numeric (float64 as soon as one value is empty); otherwise
\* it stays an object column holding the cells' own values.
ColumnIsNumeric(vals) ==
    \A i \in 1..Len(vals) :
        \/ vals[i].t \in {"e", "n"}
        \/ vals[i].t = "s" /\ IsNumericStr(vals[i].s)

ColumnDtype(vals) ==
    IF ~ColumnIsNumeric(vals) THEN "object"
    ELSE IF \E i \in 1..Len(vals) : vals[i].t = "e" THEN "float64"
    ELSE IF Len(vals) = 0 THEN "object"
    ELSE "int64"

ConvertValue(v, dtype) ==
    IF dtype # "object" /\ v.t = "s" THEN N(ParseInt(v.s)) ELSE v

\* The sheet column read under canonical header k: the first column whose
\* header cell is HEADERS[k], or 0 when no header cell matches
\* (df.reindex(columns=HEADERS) then fills the column with NaN).
SourceColumn(sheet, k) ==
    IF \E j \in Cols : sheet[1][j] = S(HEADERS[k])
    THEN CHOOSE j \in Cols :
            /\ sheet[1][j] = S(HEADERS[k])
            /\ \A i \in Cols : sheet[1][i] = S(HEADERS[k]) => j <= i
    ELSE 0

ColumnValues(sheet, k) ==
    LET j == SourceColumn(sheet, k)
    IN  [i \in 1..(Len(sheet) - 1) |->
            IF j = 0 THEN E ELSE ReadCell(sheet[i + 1][j])]

\* pd.read_excel(EXCEL) followed by df.reindex(columns=HEADERS): the rows
\* below the header, labelled 0..n-1, with each column's inferred dtype.
ReadExcel(sheet) ==
    LET n == Len(sheet) - 1
        dt == [k \in Cols |-> ColumnDtype(ColumnValues(sheet, k))]
    IN  [idx    |-> [i \in 1..n |-> i - 1],
         rows   |-> [i \in 1..n |->
                        [k \in Cols |-> ConvertValue(ColumnValues(sheet, k)[i], dt[k])]],
         dtypes |-> dt]

\* pd.DataFrame(columns=HEADERS)
EmptyFrame == [idx |-> <<>>, rows |-> <<>>, dtypes |-> [k \in Cols |-> "object"]]

\* One element of Series.astype(str).
AsTypeStr(v, dtype) ==
    CASE v.t = "e" -> NanText
      [] v.t = "s" -> v.s
      [] v.t = "n" -> IF dtype = "float64" THEN FloatText(v.n) ELSE IntText(v.n)
      [] OTHER -> <<>>

\* inv in df["Invoice No"].astype(str).values
InvoiceKnown(inv, df) ==
    \E i \in 1..Len(df.rows) :
        AsTypeStr(df.rows[i][ColInvNo], df.dtypes[ColInvNo]) = inv

\* df[df["Particular"] != "TOTAL"]: the rows kept keep their index labels.
RECURSIVE KeptPositions(_, _)
KeptPositions(rows, i) ==
    IF i > Len(rows) THEN <<>>
    ELSE (IF rows[i][ColParticular] # S(TOTAL) THEN <<i>> ELSE <<>>)
         \o KeptPositions(rows, i + 1)

\* Variant of DropTotalRows that forgets the filter.
KeepTotalRows(df) == df

DropTotalRows(df) ==
    LET keep == KeptPositions(df.rows, 1)
    IN  [idx    |-> [i \in 1..Len(keep) |-> df.idx[keep[i]]],
         rows   |-> [i \in 1..Len(keep) |-> df.rows[keep[i]]],
         dtypes |-> df.dtypes]

\* df.loc[label] = row: the row labelled `label` is overwritten when the
\* label exists, and the row is appended under that label otherwise.
SetLoc(df, label, row) ==
    IF \E i \in 1..Len(df.idx) : df.idx[i] = label
    THEN [df EXCEPT !.rows =
            [i \in 1..Len(df.rows) |-> IF df.idx[i] = label THEN row ELSE df.rows[i]]]
    ELSE [df EXCEPT !.idx = Append(df.idx, label), !.rows = Append(df.rows, row)]
\* ws.cell(r, 5).value == "TOTAL" for r from ws.max_row down to 2, with
\* ws.delete_rows(r): the header row and every row whose fifth cell is not
\* "TOTAL", the rows below a deleted one moving up.
RECURSIVE DeleteTotalRows(_, _)
DeleteTotalRows(sheet, r) ==
    IF r < 2 THEN sheet
    ELSE IF sheet[r][ColParticular] = S(TOTAL)
         THEN DeleteTotalRows(SubSeq(sheet, 1, r - 1) \o SubSeq(sheet, r + 1, Len(sheet)), r - 1)
         ELSE DeleteTotalRows(sheet, r - 1)

\* The TOTAL row written at total_row = last_row + 1.
TotalRow(last_row) ==
    [c \in Cols |->
        CASE c = ColParticular -> S(TOTAL)
          [] c = ColAmount     -> SumFormula("F", 2, last_row)
          [] c = ColTDS        -> SumFormula("G", 2, last_row)
          [] OTHER             -> E]

\* The invoice table part of apply_formulas_and_formatting, the same in both
\* programs: old TOTAL rows removed, a new TOTAL row after the last row.
WithTotal(sheet) ==
    LET kept == DeleteTotalRows(sheet, Len(sheet))
    IN  Append(kept, TotalRow(Len(kept)))

\* A row of the payment table: the values go to columns 1, 2, ...
PaymentRow(vals) == [c \in Cols |-> IF c <= Len(vals) THEN vals[c] ELSE E]

PaymentTotalRow(first, last) ==
    [c \in Cols |->
        CASE c = 4 -> S(TOTAL)
          [] c = 6 -> SumFormula("F", first, last)
          [] OTHER -> E]

\* The payment part of apply_formulas_and_formatting (invoice_watcher2.py):
\* "Payment Made" at total_row + 3, the payment header below it, every row
\* below that header deleted, then the rows of the global payments_df and
\* their total when the global is set.
WithPayments(sheet, payments) ==
    LET total_row == Len(sheet)
        start_payment_row == total_row + 3
        header_row == start_payment_row + 1
        upto == [r \in 1..header_row |->
                    IF r <= Len(sheet) THEN sheet[r]
                    ELSE IF r = start_payment_row THEN PaymentRow(<<S(PaymentMade)>>)
                    ELSE IF r = header_row
                         THEN PaymentRow([j \in 1..Len(PAYMENT_HEADERS) |-> S(PAYMENT_HEADERS[j])])
                    ELSE EmptyRow]
        last_payment_row == header_row + Len(payments.rows)
    IN  IF payments.set
        THEN upto \o [i \in 1..Len(payments.rows) |-> PaymentRow(payments.rows[i])]
                  \o <<PaymentTotalRow(header_row + 1, last_payment_row)>>
        ELSE upto

\* apply_formulas_and_formatting() of program v on the sheet of the workbook.
ApplyFormulasAndFormatting(v, sheet, payments) ==
    IF v = 1 THEN WithTotal(sheet) ELSE WithPayments(WithTotal(sheet), payments)

NoPayments == [set |-> FALSE, rows |-> <<>>]

(***************************** documents ***********************************)
\* A document is what the patterns of process_file find in its text: the
\* [A-Z0-9]{6,} tokens in scan order, the date, the reference, the rendered
\* particular and the amount.
Inv100001 == <<"1", "0", "0", "0", "0", "1">>
InvABC123 == <<"A", "B", "C", "1", "2", "3">>
InvINV0002 == <<"I", "N", "V", "0", "0", "0", "2">>
Date1 == <<"3", "-", "F", "e", "b", "-", "2", "0", "2", "6">>
Ref1 == <<"A", "/", "1", "7">>
Particular1 ==
    <<"L", "p", "a", " ", "N", "o", ".", " ", "7", " ", "o", "f", " ",
      "2", "0", "2", "0", " ", "b", "e", "f", "o", "r", "e", " ", "t", "h", "e", " ",
      "H", "i", "g", "h", " ", "C", "o", "u", "r", "t">>

Docs ==
    << [invs |-> <<Inv100001>>, date |-> <<>>, ref |-> <<>>,
        particular |-> <<>>, amount |-> 100],
       [invs |-> <<InvABC123, InvINV0002>>, date |-> Date1, ref |-> Ref1,
        particular |-> Particular1, amount |-> 250],
       [invs |-> <<>>, date |-> <<>>, ref |-> <<>>,
        particular |-> <<>>, amount |-> 0] >>

Files == 1..Len(Docs)

\* The subdirectories that get created inside the Input directory.
Dirs == {Len(Docs) + 1}

\* The main thread, and the observer thread that calls Handler.on_created.
Threads == {"main", "observer"}

\* max(invs, key=len): the first of the longest tokens.
MaxByLen(invs) ==
    invs[CHOOSE i \in 1..Len(invs) :
            /\ \A j \in 1..Len(invs) : Len(invs[j]) <= Len(invs[i])
            /\ \A j \in 1..(i - 1) : Len(invs[j]) < Len(invs[i])]

\* round(amt * 0.10, 2) and round(amt * 0.90, 2), on amounts that are
\* multiples of 10.
Tds(amt) == amt \div 10
Clear(amt) == (amt * 9) \div 10

\* The list assigned to df.loc[len(df)] in process_file.
NewRecord(d, inv_, n) ==
    <<N(n + 1), S(d.date), S(inv_), S(d.ref), S(d.particular),
      N(d.amount), N(Tds(d.amount)), N(Clear(d.amount)), S(<<>>)>>

\* The frame process_file hands to save_excel: the TOTAL rows dropped and
\* the new record set at label len(df).
WithRecord(loaded, d, inv_) ==
    LET kept == DropTotalRows(loaded)
    IN  SetLoc(kept, Len(kept.rows), NewRecord(d, inv_, Len(kept.rows)))

(***************************** extract_particular **************************)
\* The longest list pattern.findall may return here, and the largest case
\* number in it.
MaxMatches == 3
MaxCaseNo == 5

LowerLetters == <<"a", "b", "c", "d", "e", "f", "g", "h", "i", "j", "k", "l", "m", "n", "o", "p", "q", "r", "s", "t", "u", "v", "w", "x", "y", "z">>
UpperLetters == <<"A", "B", "C", "D", "E", "F", "G", "H", "I", "J", "K", "L", "M", "N", "O", "P", "Q", "R", "S", "T", "U", "V", "W", "X", "Y", "Z">>

IsLower(c) == \E i \in 1..26 : LowerLetters[i] = c
IsUpper(c) == \E i \in 1..26 : UpperLetters[i] = c

\* str.upper, str.lower and str.title.
UpperChar(c) == IF IsLower(c) THEN UpperLetters[CHOOSE i \in 1..26 : LowerLetters[i] = c] ELSE c
LowerChar(c) == IF IsUpper(c) THEN LowerLetters[CHOOSE i \in 1..26 : UpperLetters[i] = c] ELSE c
Upper(s) == [i \in 1..Len(s) |-> UpperChar(s[i])]
Lower(s) == [i \in 1..Len(s) |-> LowerChar(s[i])]
Title(s) ==
    [i \in 1..Len(s) |->
        IF i = 1 \/ ~(IsLower(s[i - 1]) \/ IsUpper(s[i - 1]))
        THEN UpperChar(s[i])
        ELSE LowerChar(s[i])]

\* str.strip for the whitespace ocr_file leaves: single spaces.
RECURSIVE Strip(_)
Strip(s) ==
    IF Len(s) > 0 /\ s[1] = " " THEN Strip(Tail(s))
    ELSE IF Len(s) > 0 /\ s[Len(s)] = " " THEN Strip(SubSeq(s, 1, Len(s) - 1))
    ELSE s

\* sep.join(items)
RECURSIVE JoinStr(_, _)
JoinStr(sep, items) ==
    IF Len(items) = 0 THEN <<>>
    ELSE IF Len(items) = 1 THEN items[1]
    ELSE items[1] \o sep \o JoinStr(sep, Tail(items))

\* sorted(set(nums)), of a set of ints.
RECURSIVE Sorted(_)
Sorted(set) ==
    IF set = {} THEN <<>>
    ELSE LET least == CHOOSE x \in set : \A y \in set : x <= y
         IN  <<least>> \o Sorted(set \ {least})

\* Variant of GroupKey with the case type as written.
GroupKeyAsWritten(m) == <<m.case, m.year, Strip(m.court)>>

\* The key a match is grouped under.
GroupKey(m) == <<Upper(m.case), m.year, Strip(m.court)>>

\* grouped, the defaultdict, as the list of its items in insertion order,
\* after the first n matches.
RECURSIVE Grouped(_, _)
Grouped(matches_, n) ==
    IF n = 0 THEN <<>>
    ELSE LET g == Grouped(matches_, n - 1)
             k == GroupKey(matches_[n])
             num == ParseInt(matches_[n].num)
         IN  IF \E i \in 1..Len(g) : g[i].key = k
             THEN [i \in 1..Len(g) |->
                      IF g[i].key = k
                      THEN [key |-> k, nums |-> Append(g[i].nums, num)]
                      ELSE g[i]]
             ELSE Append(g, [key |-> k, nums |-> <<num>>])

\* Variant of RangeItem that writes every run as start-end.
RangeItemAlways(s, p) == IntText(s) \o <<"-">> \o IntText(p)

\* f"{s}-{p}" if s != p else str(s)
RangeItem(s, p) == IF s # p THEN IntText(s) \o <<"-">> \o IntText(p) ELSE IntText(s)

\* The loop over nums[1:] and the append that follows it: i is the position
\* of n in nums.
RECURSIVE RangeLoop(_, _, _, _, _)
RangeLoop(nums, i, s, p, ranges) ==
    IF i > Len(nums) THEN Append(ranges, RangeItem(s, p))
    ELSE IF nums[i] = p + 1 THEN RangeLoop(nums, i + 1, s, nums[i], ranges)
    ELSE RangeLoop(nums, i + 1, nums[i], nums[i], Append(ranges, RangeItem(s, p)))

\* ranges, for the case numbers of one group.
Ranges(group_nums) ==
    LET nums == Sorted({group_nums[i] : i \in 1..Len(group_nums)})
    IN  RangeLoop(nums, 2, nums[1], nums[1], <<>>)

\* The string appended to results for one group.
Rendering(key, group_nums) ==
    Title(key[1]) \o <<" ", "N", "o", ".", " ">> \o JoinStr(<<",", " ">>, Ranges(group_nums))
        \o <<" ", "o", "f", " ">> \o key[2] \o <<" ", "b", "e", "f", "o", "r", "e", " ", "t", "h", "e", " ">> \o key[3]

\* extract_particular, from the list pattern.findall returned.
ExtractParticular(matches_) ==
    IF Len(matches_) = 0 THEN <<>>
    ELSE LET g == Grouped(matches_, Len(matches_))
         IN  JoinStr(<<";", " ">>, [i \in 1..Len(g) |-> Rendering(g[i].key, g[i].nums)])

(***************************** extract_amount ******************************)
\* The longest text, in the units below.
MaxUnits == 4

\* [0-9,]
IsAmountChar(c) == IsDigit(c) \/ c = ","

\* s.replace(",", "")
RECURSIVE RemoveCommas(_)
RemoveCommas(s) ==
    IF Len(s) = 0 THEN <<>>
    ELSE IF s[1] = "," THEN RemoveCommas(Tail(s))
    ELSE <<s[1]>> \o RemoveCommas(Tail(s))

\* Where ([0-9,]+\.\d{2}) matches in the unit u: i is the first position of
\* the match and j that of its point. The run before the point is taken
\* whole, since no shorter one is followed by a point.
AmountMatches(u) ==
    {<<i, j>> \in (1..Len(u)) \X (1..Len(u)) :
        /\ i < j
        /\ \A k \in i..(j - 1) : IsAmountChar(u[k])
        /\ u[j] = "."
        /\ j + 2 <= Len(u)
        /\ IsDigit(u[j + 1]) /\ IsDigit(u[j + 2])}

HasAmount(u) == AmountMatches(u) # {}

\* float(m.group(1).replace(",", "")), in hundredths, of the leftmost match
\* in u.
AmountOf(u) ==
    LET m == CHOOSE a \in AmountMatches(u) : \A b \in AmountMatches(u) : a[1] <= b[1]
    IN  ParseInt(RemoveCommas(SubSeq(u, m[1], m[2] - 1))) * 100
            + ParseInt(SubSeq(u, m[2] + 1, m[2] + 2))

\* The labels of the three patterns, in the order of the cascade, lower-cased
\* and without the optional whitespace.
Labels == <<<<"t", "o", "t", "a", "l", "i", "n", "v", "o", "i", "c", "e", "v", "a", "l", "u", "e">>, <<"g", "r", "a", "n", "d", "t", "o", "t", "a", "l">>, <<"t", "o", "t", "a", "l", "a", "m", "o", "u", "n", "t">>>>

\* s.replace(" ", "")
RECURSIVE RemoveSpaces(_)
RemoveSpaces(s) ==
    IF Len(s) = 0 THEN <<>>
    ELSE IF s[1] = " " THEN RemoveSpaces(Tail(s))
    ELSE <<s[1]>> \o RemoveSpaces(Tail(s))

\* The label of pattern p matches inside the unit u, whatever the case of its
\* letters.
HasLabel(p, u) ==
    LET w == Lower(RemoveSpaces(u))
        l == Labels[p]
    IN  \E o \in 0..(Len(w) - Len(l)) : SubSeq(w, o + 1, o + Len(l)) = l

\* re.search(pattern p, text): the unit holding the amount the match ends
\* with, 0 for None. The match starts at the leftmost label that an amount
\* follows, and .*? ends at the nearest one.
Search(p, text_) ==
    LET starts == {i \in 1..Len(text_) :
                      /\ HasLabel(p, text_[i])
                      /\ \E k \in (i + 1)..Len(text_) : HasAmount(text_[k])}
    IN  IF starts = {} THEN 0
        ELSE LET i == CHOOSE a \in starts : \A b \in starts : a <= b
             IN  CHOOSE k \in (i + 1)..Len(text_) :
                    /\ HasAmount(text_[k])
                    /\ \A j \in (i + 1)..(k - 1) : ~HasAmount(text_[j])

\* The for loop of extract_amount from pattern p on.
RECURSIVE Cascade(_, _)
Cascade(p, text_) ==
    IF p > Len(Labels) THEN 0
    ELSE IF Search(p, text_) # 0 THEN AmountOf(text_[Search(p, text_)])
    ELSE Cascade(p + 1, text_)

\* Variant of ExtractAmount that takes the label that comes first in the
\* text.
ExtractAmountTextOrder(text_) ==
    LET found == {i \in 1..Len(text_) :
                     /\ \E p \in 1..Len(Labels) : HasLabel(p, text_[i])
                     /\ \E k \in (i + 1)..Len(text_) : HasAmount(text_[k])}
    IN  IF found = {} THEN 0
        ELSE LET i == CHOOSE a \in found : \A b \in found : a <= b
                 k == CHOOSE c \in (i + 1)..Len(text_) :
                         /\ HasAmount(text_[c])
                         /\ \A j \in (i + 1)..(c - 1) : ~HasAmount(text_[j])
             IN  AmountOf(text_[k])

\* extract_amount, in hundredths.
ExtractAmount(text_) == Cascade(1, text_)

(***************************** the inputs of the extractions ***************)
\* All lists over a set, up to a length.
Lists(set, n) == UNION {[1..k -> set] : k \in 0..n}

HighCourt == <<"H", "i", "g", "h", " ", "C", "o", "u", "r", "t">>
\* A court as the pattern captures it before a character that is no letter,
\* with the whitespace in front of that character.
DelhiCourtSpace == <<"H", "i", "g", "h", " ", "C", "o", "u", "r", "t", " ", "a", "t", " ", "D", "e", "l", "h", "i", " ">>
DelhiCourt == <<"H", "i", "g", "h", " ", "C", "o", "u", "r", "t", " ", "a", "t", " ", "D", "e", "l", "h", "i">>

\* The tuples pattern.findall returns: (case type, number, year, court).
Matches ==
    {[case |-> <<"L", "P", "A">>, num |-> IntText(n), year |-> <<"2", "0", "2", "0">>, court |-> HighCourt] :
        n \in 1..MaxCaseNo}
    \cup {[case |-> <<"l", "p", "a">>, num |-> <<"1">>, year |-> <<"2", "0", "2", "0">>, court |-> HighCourt],
          [case |-> <<"l", "p", "a">>, num |-> <<"2">>, year |-> <<"2", "0", "2", "0">>, court |-> HighCourt],
          [case |-> <<"F", "A", "O">>, num |-> <<"1">>, year |-> <<"2", "0", "2", "0">>, court |-> HighCourt],
          [case |-> <<"L", "P", "A">>, num |-> <<"1">>, year |-> <<"2", "0", "2", "1">>, court |-> HighCourt],
          [case |-> <<"L", "P", "A">>, num |-> <<"2">>, year |-> <<"2", "0", "2", "0">>, court |-> DelhiCourtSpace],
          [case |-> <<"l", "p", "a">>, num |-> <<"0", "3">>, year |-> <<"2", "0", "2", "0">>, court |-> DelhiCourt]}

\* The units a text is made of: labels, amounts, and a number that is no
\* amount.
Units ==
    {<<"T", "o", "t", "a", "l", " ", "I", "n", "v", "o", "i", "c", "e", " ", "V", "a", "l", "u", "e">>, <<"G", "R", "A", "N", "D", " ", "T", "O", "T", "A", "L">>, <<"T", "o", "t", "a", "l", " ", "A", "m", "o", "u", "n", "t">>, <<"G", "r", "a", "n", "d", " ", "T", "o", "t", "a", "l", " ", "A", "m", "o", "u", "n", "t">>,
     <<"1", ",", "2", "5", "0", ".", "0", "0">>, <<"8", "0", ".", "0", "0">>, <<"5", "0", "0">>}

(***************************** state ***************************************)
VARIABLES
    variant,      \* 1: invoice_watcher.py runs, 2: invoice_watcher2.py
    input,        \* the files in the Input directory
    processed,    \* the files in the Processed directory
    excel,        \* Invoice_Data.xlsx: missing, a workbook, or unreadable
    locked,       \* an external application holds the workbook open
    pc,           \* where process_file stands
    cur,          \* the file process_file was called on (0: none yet)
    inv,          \* the invoice number selected for cur
    ldf,          \* the frame load_excel returned
    df,           \* the frame handed to save_excel
    payments_df,  \* the global payments_df of invoice_watcher2.py
    outcome,      \* how the last process_file call on each file ended (none:
                  \* no call since the file was put into Input)
    appended,     \* the files whose record a completed call appended
    pre,          \* the workbook as it was when the call on cur began
    saves,        \* completed df.to_excel calls of save_excel
    drops,        \* how often a file was put into Input
    edits,        \* how often the operator changed the workbook by hand
    phase,        \* where the main thread stands in __main__
    todo,         \* the entries of os.listdir(INPUT) the scan has not visited
    events,       \* the created events queued for the observer thread
    dirs,         \* the subdirectories of the Input directory
    caller,       \* the thread that made the last process_file call
    overlap,      \* a process_file call began while another was running
    matches,      \* extract_particular: what pattern.findall returned
    text,         \* extract_amount: its argument
    particular,   \* what extract_particular returned
    amt,          \* what extract_amount returned, in hundredths
    returned      \* the extractions that have returned

vars == <<variant, input, processed, excel, locked, pc, cur, inv, ldf, df,
          payments_df, outcome, appended, pre, saves, drops, edits,
          phase, todo, events, dirs, caller, overlap,
          matches, text, particular, amt, returned>>

\* The variables of the workbook, the directories and process_file.
ledger == <<variant, input, processed, excel, locked, pc, cur, inv, ldf, df,
            payments_df, outcome, appended, pre, saves, drops, edits>>

\* The variables of __main__ and of the observer.
control == <<phase, todo, events, dirs, caller, overlap>>

\* The variables of the extractions.
extraction == <<matches, text, particular, amt, returned>>

Missing == [state |-> "missing", sheet |-> <<>>]
Workbook(sheet) == [state |-> "ok", sheet |-> sheet]

InitProgram ==
    /\ variant \in {1, 2}
    /\ input = {}
    /\ processed = {}
    /\ excel = Missing
    /\ locked = FALSE
    /\ pc = "idle"
    /\ cur = 0
    /\ inv = <<>>
    /\ ldf = EmptyFrame
    /\ df = EmptyFrame
    /\ payments_df = NoPayments
    /\ outcome = [f \in Files |-> "none"]
    /\ appended = {}
    /\ pre = Missing
    /\ saves = 0
    /\ drops = 0
    /\ edits = 0
    /\ phase = "off"
    /\ todo = {}
    /\ events = <<>>
    /\ dirs = {}
    /\ caller = "none"
    /\ overlap = FALSE

Init ==
    /\ InitProgram
    /\ matches = <<>>
    /\ text = <<>>
    /\ particular = <<>>
    /\ amt = 0
    /\ returned = {}

\* The extractions alone, on every list of matches and every text of the
\* sets above. The two programs hold the same extract_particular and
\* extract_amount.
InitExtract ==
    /\ InitProgram
    /\ variant = 1
    /\ \/ matches \in Lists(Matches, MaxMatches) /\ text = <<>>
       \/ matches = <<>> /\ text \in Lists(Units, MaxUnits)
    /\ particular = <<>>
    /\ amt = 0
    /\ returned = {}

(***************************** the threads *********************************)
\* Variant of ObserverStarted with obs.start() ahead of the startup scan.
ObserverStartedEarly == phase \in {"scan", "watch"}

\* The observer is scheduled and started once the startup scan is over, and
\* takes no event after obs.stop().
ObserverStarted == phase = "watch"

\* Thread t is inside a process_file call, or an exception or an interrupt
\* ended it there.
Running(t) == caller = t /\ pc # "idle"

\* Thread t stands at the head of its loop: the main thread at the for loop
\* of the startup scan, the observer thread at its event queue.
AtLoop(t) ==
    /\ ~Running(t)
    /\ t = "main" => phase = "scan"
    /\ t = "observer" =>
          /\ ObserverStarted
          /\ ~(Running("main") /\ pc \in {"raised", "aborted"})

\* Thread t takes the entry e it handles next: the scan any entry of the
\* listing not visited yet, the observer the oldest queued event.
Take(t, e) ==
    /\ AtLoop(t)
    /\ IF t = "main"
       THEN /\ e \in todo
            /\ todo' = todo \ {e}
            /\ UNCHANGED events
       ELSE /\ events # <<>>
            /\ e = Head(events)
            /\ events' = Tail(events)
            /\ UNCHANGED todo

\* The created event of entry e, queued when the observer watches.
Created(e) == events' = IF ObserverStarted THEN Append(events, e) ELSE events

(***************************** environment *********************************)
\* A document is put into the Input directory.
Drop(f) ==
    /\ f \notin input
    /\ drops < MaxDrops
    /\ input' = input \cup {f}
    /\ drops' = drops + 1
    /\ Created(f)
    /\ outcome' = [outcome EXCEPT ![f] = "none"]
    /\ UNCHANGED <<variant, processed, excel, locked, pc, cur, inv, ldf, df,
                   payments_df, appended, pre, saves, edits>>
    /\ UNCHANGED <<phase, todo, dirs, caller, overlap>>
    /\ UNCHANGED extraction

\* A subdirectory is created inside the Input directory.
MakeDir(d) ==
    /\ d \notin dirs
    /\ dirs' = dirs \cup {d}
    /\ Created(d)
    /\ UNCHANGED <<variant, input, processed, excel, locked, pc, cur, inv, ldf,
                   df, payments_df, outcome, appended, pre, saves, drops, edits>>
    /\ UNCHANGED <<phase, todo, caller, overlap>>
    /\ UNCHANGED extraction

\* An external application opens the workbook: opening it for writing now
\* raises PermissionError.
Lock ==
    /\ excel.state # "missing"
    /\ ~locked
    /\ locked' = TRUE
    /\ UNCHANGED <<variant, input, processed, excel, pc, cur, inv, ldf, df,
                   payments_df, outcome, appended, pre, saves, drops, edits>>
    /\ UNCHANGED control
    /\ UNCHANGED extraction

Unlock ==
    /\ locked
    /\ locked' = FALSE
    /\ UNCHANGED <<variant, input, processed, excel, pc, cur, inv, ldf, df,
                   payments_df, outcome, appended, pre, saves, drops, edits>>
    /\ UNCHANGED control
    /\ UNCHANGED extraction

(***************************** process_file ********************************)
\* An exception leaves process_file: nothing catches it in the program.
Raise(kind) ==
    /\ pc' = "raised"
    /\ outcome' = [outcome EXCEPT ![cur] = kind]

\* Variant of Reject that relocates the document it rejects.
RejectAndMove(f) ==
    /\ \E t \in Threads : Take(t, f)
    /\ f \in input
    /\ Len(Docs[f].invs) = 0
    /\ outcome' = [outcome EXCEPT ![f] = "Rejected"]
    /\ input' = input \ {f}
    /\ processed' = processed \cup {f}
    /\ overlap' = (overlap \/ pc # "idle")
    /\ UNCHANGED <<variant, excel, locked, pc, cur, inv, ldf, df, payments_df,
                   appended, pre, saves, drops, edits>>
    /\ UNCHANGED <<phase, dirs, caller>>
    /\ UNCHANGED extraction

\* process_file(path) up to its first return: no invoice number token, the
\* call prints and returns.
Reject(f) ==
    /\ \E t \in Threads : Take(t, f)
    /\ f \in input
    /\ Len(Docs[f].invs) = 0
    /\ outcome' = [outcome EXCEPT ![f] = "Rejected"]
    /\ overlap' = (overlap \/ pc # "idle")
    /\ UNCHANGED <<variant, input, processed, excel, locked, pc, cur, inv, ldf,
                   df, payments_df, appended, pre, saves, drops, edits>>
    /\ UNCHANGED <<phase, dirs, caller>>
    /\ UNCHANGED extraction

\* process_file(path) whose ocr_file raises: the file is no PDF and no image
\* the libraries can open, or it is not written out yet.
OcrRaise(f) ==
    /\ \E t \in Threads : Take(t, f) /\ caller' = t
    /\ f \in input
    /\ pc = "idle"
    /\ cur' = f
    /\ inv' = <<>>
    /\ pre' = excel
    /\ pc' = "raised"
    /\ outcome' = [outcome EXCEPT ![f] = "ConversionError"]
    /\ UNCHANGED <<variant, input, processed, excel, locked, ldf, df,
                   payments_df, appended, saves, drops, edits>>
    /\ UNCHANGED <<phase, dirs, overlap>>
    /\ UNCHANGED extraction

\* process_file(path) up to the call of load_excel.
\* It is called by the thread that takes f; a call that begins while the
\* other thread is inside its own is recorded in overlap and not followed.
Begin(f) ==
    /\ f \in input
    /\ Len(Docs[f].invs) > 0
    /\ saves < MaxSaves
    /\ \E t \in Threads :
          /\ Take(t, f)
          /\ IF pc = "idle"
             THEN /\ caller' = t
                  /\ cur' = f
                  /\ inv' = MaxByLen(Docs[f].invs)
                  /\ pre' = excel
                  /\ pc' = "load_excel"
                  /\ outcome' = [outcome EXCEPT ![f] = "running"]
                  /\ UNCHANGED overlap
             ELSE /\ overlap' = TRUE
                  /\ UNCHANGED <<caller, cur, inv, pre, pc, outcome>>
    /\ UNCHANGED <<variant, input, processed, excel, locked, ldf, df,
                   payments_df, appended, saves, drops, edits>>
    /\ UNCHANGED <<phase, dirs>>
    /\ UNCHANGED extraction

\* Variant of AfterLoad that goes on to the move without the save.
AfterLoadMoveFirst(loaded) ==
    /\ ldf' = loaded
    /\ IF InvoiceKnown(inv, loaded)
       THEN /\ pc' = "move_duplicate"
            /\ UNCHANGED df
       ELSE /\ pc' = "move"
            /\ df' = WithRecord(loaded, Docs[cur], inv)

\* What process_file does with the frame load_excel returned, up to its next
\* access to the workbook or to the Input directory.
AfterLoad(loaded) ==
    /\ ldf' = loaded
    /\ IF InvoiceKnown(inv, loaded)
       THEN /\ pc' = "move_duplicate"
            /\ UNCHANGED df
       ELSE /\ pc' = "save_wait"
            /\ df' = WithRecord(loaded, Docs[cur], inv)

\* load_excel, the workbook missing: df.to_excel of the empty frame.
LoadCreate ==
    /\ pc = "load_excel"
    /\ excel.state = "missing"
    /\ excel' = Workbook(ToExcel(EmptyFrame))
    /\ pc' = "load_format"
    /\ UNCHANGED <<variant, input, processed, locked, cur, inv, ldf, df,
                   payments_df, outcome, appended, pre, saves, drops, edits>>
    /\ UNCHANGED control
    /\ UNCHANGED extraction

\* load_excel, the workbook missing: apply_formulas_and_formatting, whose
\* wb.save raises when the workbook is locked; then the return of the empty
\* frame.
LoadFormat ==
    /\ pc = "load_format"
    /\ IF locked
       THEN /\ Raise("PermissionError")
            /\ UNCHANGED <<excel, ldf, df>>
       ELSE /\ excel' = Workbook(ApplyFormulasAndFormatting(variant, excel.sheet, payments_df))
            /\ AfterLoad(EmptyFrame)
            /\ UNCHANGED outcome
    /\ UNCHANGED <<variant, input, processed, locked, cur, inv, payments_df,
                   appended, pre, saves, drops, edits>>
    /\ UNCHANGED control
    /\ UNCHANGED extraction

\* wait_for_excel, as load_excel and save_excel call it: it returns once the
\* workbook opens for appending, and sleeps and retries while it is locked.
WaitForExcel(from, to) ==
    /\ pc = from
    /\ excel.state # "missing"
    /\ ~locked
    /\ pc' = to
    /\ UNCHANGED <<variant, input, processed, excel, locked, cur, inv, ldf, df,
                   payments_df, outcome, appended, pre, saves, drops, edits>>
    /\ UNCHANGED control
    /\ UNCHANGED extraction

LoadWait == WaitForExcel("load_excel", "load_read")

\* load_excel, the workbook present: pd.read_excel and reindex. Reading is
\* not refused while the external application holds the workbook; a file that
\* is no workbook makes pd.read_excel raise.
LoadRead ==
    /\ pc = "load_read"
    /\ IF excel.state = "corrupt"
       THEN /\ Raise("BadZipFile")
            /\ UNCHANGED <<ldf, df>>
       ELSE /\ AfterLoad(ReadExcel(excel.sheet))
            /\ UNCHANGED outcome
    /\ UNCHANGED <<variant, input, processed, excel, locked, cur, inv,
                   payments_df, appended, pre, saves, drops, edits>>
    /\ UNCHANGED control
    /\ UNCHANGED extraction

SaveWait == WaitForExcel("save_wait", "save_write")

\* save_excel: df.to_excel, which raises when the workbook is locked, and in
\* invoice_watcher2.py the assignment of the global payments_df.
SaveWrite ==
    /\ pc = "save_write"
    /\ IF locked
       THEN /\ Raise("PermissionError")
            /\ UNCHANGED <<excel, payments_df, saves>>
       ELSE /\ excel' = Workbook(ToExcel(df))
            /\ payments_df' = IF variant = 2
                              THEN [set |-> TRUE, rows |-> ExamplePayments]
                              ELSE payments_df
            /\ saves' = saves + 1
            /\ pc' = "save_format"
            /\ UNCHANGED outcome
    /\ UNCHANGED <<variant, input, processed, locked, cur, inv, ldf, df,
                   appended, pre, drops, edits>>
    /\ UNCHANGED control
    /\ UNCHANGED extraction

\* save_excel: apply_formulas_and_formatting, whose wb.save raises when the
\* workbook is locked.
SaveFormat ==
    /\ pc = "save_format"
    /\ IF locked
       THEN /\ Raise("PermissionError")
            /\ UNCHANGED excel
       ELSE /\ excel' = Workbook(ApplyFormulasAndFormatting(variant, excel.sheet, payments_df))
            /\ pc' = "move"
            /\ UNCHANGED outcome
    /\ UNCHANGED <<variant, input, processed, locked, cur, inv, ldf, df,
                   payments_df, appended, pre, saves, drops, edits>>
    /\ UNCHANGED control
    /\ UNCHANGED extraction

\* shutil.move(path, PROCESSED/...) and the return.
Relocate(result) ==
    /\ input' = input \ {cur}
    /\ processed' = processed \cup {cur}
    /\ outcome' = [outcome EXCEPT ![cur] = result]
    /\ pc' = "idle"
    /\ ldf' = EmptyFrame
    /\ df' = EmptyFrame

Move ==
    /\ pc = "move"
    /\ Relocate("Appended")
    /\ appended' = appended \cup {cur}
    /\ UNCHANGED <<variant, excel, locked, cur, inv, payments_df,
                   pre, saves, drops, edits>>
    /\ UNCHANGED control
    /\ UNCHANGED extraction

MoveDuplicate ==
    /\ pc = "move_duplicate"
    /\ Relocate("DuplicateSkipped")
    /\ UNCHANGED <<variant, excel, locked, cur, inv, payments_df,
                   appended, pre, saves, drops, edits>>
    /\ UNCHANGED control
    /\ UNCHANGED extraction

\* The operator starts the program, the first time or again after it has
\* exited or an exception has ended a thread of it: the module's globals are
\* fresh and the startup scan lists the Input directory.
Restart ==
    /\ phase \in {"off", "exited"} \/ pc = "raised"
    /\ pc' = "idle"
    /\ payments_df' = NoPayments
    /\ phase' = "scan"
    /\ todo' = input \cup dirs
    /\ events' = <<>>
    /\ caller' = "none"
    /\ ldf' = EmptyFrame
    /\ df' = EmptyFrame
    /\ UNCHANGED <<variant, input, processed, excel, locked, cur, inv,
                   outcome, appended, pre, saves, drops, edits>>
    /\ UNCHANGED <<dirs, overlap>>
    /\ UNCHANGED extraction

(***************************** __main__ and Handler ************************)
\* The startup scan visits an entry that is no regular file.
ScanSkip(e) ==
    /\ Take("main", e)
    /\ e \notin input
    /\ UNCHANGED <<variant, input, processed, excel, locked, pc, cur, inv, ldf,
                   df, payments_df, outcome, appended, pre, saves, drops, edits>>
    /\ UNCHANGED <<phase, dirs, caller, overlap>>
    /\ UNCHANGED extraction

\* The startup scan is over: the observer is scheduled and started and the
\* main thread enters its sleep loop.
ScanDone ==
    /\ AtLoop("main")
    /\ todo = {}
    /\ phase' = "watch"
    /\ UNCHANGED <<variant, input, processed, excel, locked, pc, cur, inv, ldf,
                   df, payments_df, outcome, appended, pre, saves, drops, edits>>
    /\ UNCHANGED <<todo, events, dirs, caller, overlap>>
    /\ UNCHANGED extraction

\* Handler.on_created with the event of a directory: nothing is called.
DispatchSkip(e) ==
    /\ Take("observer", e)
    /\ e \in Dirs
    /\ UNCHANGED <<variant, input, processed, excel, locked, pc, cur, inv, ldf,
                   df, payments_df, outcome, appended, pre, saves, drops, edits>>
    /\ UNCHANGED <<phase, dirs, caller, overlap>>
    /\ UNCHANGED extraction

\* KeyboardInterrupt in the main thread. The try statement encloses the
\* sleep loop only: raised there it leads to obs.stop(); raised during the
\* startup scan nothing catches it, and it ends the program inside the call
\* the scan has made, if it has made one.
Interrupt ==
    /\ phase \in {"scan", "watch"}
    /\ ~(Running("main") /\ pc = "raised")
    /\ IF phase = "scan"
       THEN /\ phase' = "exited"
            /\ pc' = IF Running("main") THEN "aborted" ELSE pc
       ELSE /\ phase' = "stopping"
            /\ UNCHANGED pc
    /\ UNCHANGED <<variant, input, processed, excel, locked, cur, inv, ldf,
                   df, payments_df, outcome, appended, pre, saves, drops, edits>>
    /\ UNCHANGED <<todo, events, dirs, caller, overlap>>
    /\ UNCHANGED extraction

\* obs.join() returns once the observer thread has left the handler it was
\* in, and the program exits.
Join ==
    /\ phase = "stopping"
    /\ ~(Running("observer") /\ pc # "raised")
    /\ phase' = "exited"
    /\ events' = <<>>
    /\ UNCHANGED <<variant, input, processed, excel, locked, pc, cur, inv, ldf,
                   df, payments_df, outcome, appended, pre, saves, drops, edits>>
    /\ UNCHANGED <<todo, dirs, caller, overlap>>
    /\ UNCHANGED extraction

(***************************** the operator's edits ************************)
Notes == <<"N", "o", "t", "e", "s">>

\* Between two calls the operator opens the workbook and renames one header
\* cell.
EditHeader(k) ==
    /\ pc = "idle"
    /\ excel.state = "ok"
    /\ locked
    /\ edits < MaxEdits
    /\ excel' = [excel EXCEPT !.sheet[1][k] = S(Notes)]
    /\ edits' = edits + 1
    /\ UNCHANGED <<variant, input, processed, locked, pc, cur, inv, ldf, df,
                   payments_df, outcome, appended, pre, saves, drops>>
    /\ UNCHANGED control
    /\ UNCHANGED extraction

\* The workbook is overwritten by something that is no workbook.
CorruptStore ==
    /\ pc = "idle"
    /\ excel.state = "ok"
    /\ edits < MaxEdits
    /\ excel' = [state |-> "corrupt", sheet |-> <<>>]
    /\ edits' = edits + 1
    /\ UNCHANGED <<variant, input, processed, locked, pc, cur, inv, ldf, df,
                   payments_df, outcome, appended, pre, saves, drops>>
    /\ UNCHANGED control
    /\ UNCHANGED extraction

(***************************** the extractions *****************************)
CallExtractParticular ==
    /\ "extract_particular" \notin returned
    /\ particular' = ExtractParticular(matches)
    /\ returned' = returned \cup {"extract_particular"}
    /\ UNCHANGED <<matches, text, amt>>
    /\ UNCHANGED <<ledger, control>>

CallExtractAmount ==
    /\ "extract_amount" \notin returned
    /\ amt' = ExtractAmount(text)
    /\ returned' = returned \cup {"extract_amount"}
    /\ UNCHANGED <<matches, text, particular>>
    /\ UNCHANGED <<ledger, control>>

NextExtract ==
    \/ CallExtractParticular
    \/ CallExtractAmount

SpecExtract == InitExtract /\ [][NextExtract]_vars

(***************************** specifications ******************************)
\* The program running undisturbed, but for the lock on the workbook.
NextRun ==
    \/ \E f \in Files : Drop(f)
    \/ Lock
    \/ Unlock
    \/ Restart
    \/ ScanDone
    \/ \E f \in Files : Reject(f)
    \/ \E f \in Files : Begin(f)
    \/ LoadCreate
    \/ LoadFormat
    \/ LoadWait
    \/ LoadRead
    \/ SaveWait
    \/ SaveWrite
    \/ SaveFormat
    \/ Move
    \/ MoveDuplicate

\* The program with subdirectories in Input, documents the text conversion
\* fails on, and interrupts.
Next ==
    \/ NextRun
    \/ \E d \in Dirs : MakeDir(d)
    \/ \E e \in Dirs : ScanSkip(e)
    \/ \E e \in Dirs : DispatchSkip(e)
    \/ \E f \in Files : OcrRaise(f)
    \/ Interrupt
    \/ Join

Spec == Init /\ [][Next]_vars

\* The program with an operator who also edits or damages the workbook.
NextCorrupt ==
    \/ NextRun
    \/ \E k \in {ColInvNo, ColComment} : EditHeader(k)
    \/ CorruptStore

SpecCorrupt == Init /\ [][NextCorrupt]_vars

(***************************** reading the ledger **************************)
\* The text shown in a cell.
CellText(v) ==
    CASE v.t = "s" -> v.s
      [] v.t = "n" -> IntText(v.n)
      [] OTHER -> <<>>

\* The invoice numbers process_file selects from the documents.
InvoiceNumbers == {MaxByLen(Docs[f].invs) : f \in {g \in Files : Len(Docs[g].invs) > 0}}

\* The rows of a sheet that carry an invoice record, and its aggregate rows.
RecordRows(sheet) ==
    {r \in 2..Len(sheet) :
        /\ sheet[r][ColParticular] # S(TOTAL)
        /\ CellText(sheet[r][ColInvNo]) \in InvoiceNumbers}

AggregateRows(sheet) == {r \in 2..Len(sheet) : sheet[r][ColParticular] = S(TOTAL)}

\* The rows a SUM formula ranges over (a range written backwards is read
\* forwards).
FormulaRows(v) == IF v.m <= v.n THEN v.m..v.n ELSE v.n..v.m

AppendPath == {"save_wait", "save_write", "save_format", "move"}

\* The persisted ledger held a non-aggregate row with the selected invoice
\* number when the call on cur began.
HadInvoice ==
    /\ cur # 0
    /\ pre.state = "ok"
    /\ \E r \in 2..Len(pre.sheet) :
          /\ pre.sheet[r][ColParticular] # S(TOTAL)
          /\ pre.sheet[r][ColInvNo] = S(inv)

(***************************** claims **************************************)
\* C1: no two non-aggregate rows of the persisted ledger carry the same
\* invoice number.
C1_InvoiceNoUnique ==
    excel.state = "ok" =>
        \A r1, r2 \in RecordRows(excel.sheet) :
            r1 # r2 =>
                CellText(excel.sheet[r1][ColInvNo]) # CellText(excel.sheet[r2][ColInvNo])

\* C2: a call on a document whose invoice number is the Invoice No of a
\* non-aggregate row of the persisted ledger leaves the workbook as it was,
\* never takes the append path, and once it has returned has ended in
\* DuplicateSkipped with the document in Processed.
C2_DuplicateLeavesLedger ==
    HadInvoice =>
        /\ pc \notin AppendPath
        /\ excel = pre
        /\ (pc = "idle" /\ outcome[cur] \notin {"none", "running"})
              => (outcome[cur] = "DuplicateSkipped" /\ cur \in processed)

\* C3: a call that finds no invoice number changes neither the directories
\* nor the workbook; a file enters Processed, or leaves Input, only in a step
\* that ends its call in Appended or DuplicateSkipped; no document without an
\* invoice number is ever in Processed.
C3_RejectedStay ==
    /\ [](\A f \in processed :
            /\ Len(Docs[f].invs) > 0
            /\ (f \in input \/ outcome[f] \in {"Appended", "DuplicateSkipped"}))
    /\ [][\A f \in Files :
            /\ (f \in processed' /\ f \notin processed)
                  => outcome'[f] \in {"Appended", "DuplicateSkipped"}
            /\ (f \in input /\ f \notin input')
                  => (outcome'[f] \in {"Appended", "DuplicateSkipped"} /\ f \in processed')
            /\ (outcome'[f] = "Rejected" /\ outcome[f] # "Rejected")
                  => UNCHANGED <<input, processed, excel>>]_vars

C3_Witness ==
    /\ outcome[3] = "Rejected"
    /\ 3 \in input
    /\ 1 \in processed
    /\ outcome[1] = "Appended"

\* C4: after a completed save the TOTAL row's Amount and TDS formulas range
\* over exactly the rows of the invoice records.
C4_TotalCoversRecords ==
    pc = "move" =>
        \A t \in AggregateRows(excel.sheet) :
            /\ FormulaRows(excel.sheet[t][ColAmount]) = RecordRows(excel.sheet)
            /\ FormulaRows(excel.sheet[t][ColTDS]) = RecordRows(excel.sheet)

\* C5: the persisted ledger never holds more than one aggregate row and the
\* aggregate row comes after every invoice record; the frame handed to
\* save_excel holds no aggregate row; a completed save leaves exactly one
\* aggregate row, right below the rows of the frame it wrote.
C5_OneAggregateRowLast ==
    /\ excel.state = "ok" =>
          /\ Cardinality(AggregateRows(excel.sheet)) <= 1
          /\ \A t \in AggregateRows(excel.sheet) :
                \A r \in RecordRows(excel.sheet) : r < t
    /\ pc \in AppendPath =>
          \A i \in 1..Len(df.rows) : df.rows[i][ColParticular] # S(TOTAL)
    /\ pc = "move" => AggregateRows(excel.sheet) = {Len(df.rows) + 2}

C5_Witness ==
    /\ pc = "move"
    /\ \E i \in 1..Len(ldf.rows) : ldf.rows[i][ColParticular] = S(TOTAL)
    /\ Cardinality(RecordRows(excel.sheet)) >= 2

\* C6: the record appended carries Sr.No = (number of invoice records in the
\* persisted ledger) + 1.
C6_SerialIsCountPlusOne ==
    pc = "save_wait" =>
        LET k == Len(DropTotalRows(ldf).rows)
        IN  \A i \in 1..Len(df.rows) :
                df.idx[i] = k =>
                    df.rows[i][ColSrNo] = N(Cardinality(RecordRows(excel.sheet)) + 1)

\* C7: what load_excel reads after a completed save_excel(df) is the rows of
\* df, in order and cell by cell the same text, followed by one aggregate row
\* and nothing else.
C7_RoundTrip ==
    pc = "move" =>
        LET back == ReadExcel(excel.sheet).rows
            n == Len(df.rows)
        IN  /\ Len(back) = n + 1
            /\ \A i \in 1..n : \A c \in Cols : CellText(back[i][c]) = CellText(df.rows[i][c])
            /\ back[n + 1][ColParticular] = S(TOTAL)

\* C8: a document whose record a completed call appended never takes the
\* append path again.
C8_ProcessedOnce == pc \in AppendPath => cur \notin appended

\* C9: load_excel on a workbook whose header row is not the canonical one
\* returns no record: no row of the frame carries the amounts of an invoice
\* record.
C9_MismatchLoadsEmpty ==
    (pc \in {"save_wait", "move_duplicate"} /\ pre.state = "ok" /\ pre.sheet[1] # HeaderRow)
        => \A i \in 1..Len(ldf.rows) :
              ~(/\ ldf.rows[i][ColAmount].t = "n"
                /\ ldf.rows[i][ColTDS].t = "n"
                /\ ldf.rows[i][ColClear].t = "n")

\* C10: no call of process_file ends in the PermissionError of a locked
\* workbook.
C10_LockNeverSurfaces == \A f \in Files : outcome[f] # "PermissionError"

\* The entries with a created event in the observer's queue.
Queued == {events[i] : i \in 1..Len(events)}

\* The texts in the Invoice No column of the persisted ledger.
LedgerInvoiceTexts ==
    IF excel.state = "ok"
    THEN {CellText(excel.sheet[r][ColInvNo]) : r \in 2..Len(excel.sheet)}
    ELSE {}

\* C11: a call that ends in an exception does not stop the processing of the
\* other documents: no thread is ended by an exception while entries of the
\* startup listing are unvisited or file events are queued.
C11_FailureDoesNotStop ==
    \A t \in Threads :
        (Running(t) /\ pc = "raised") =>
            /\ t = "main" => todo \cap input = {}
            /\ t = "observer" => Queued \cap Files = {}

\* C12: the ledger a save leaves behind, completed, failed or terminated, is
\* complete: when no call is in progress a persisted ledger that holds
\* invoice records holds exactly one aggregate row.
C12_SaveAtomic ==
    (pc \in {"idle", "raised", "aborted"} /\ excel.state = "ok"
        /\ RecordRows(excel.sheet) # {})
        => Cardinality(AggregateRows(excel.sheet)) = 1

\* C13: while the program runs every regular file in Input has had
\* process_file called on it since it appeared, or is an unvisited entry of
\* the startup listing, or has a created event queued; process_file is never
\* called on a subdirectory.
C13_EveryFileInvoked ==
    /\ cur \notin Dirs
    /\ (phase \in {"scan", "watch"} /\ pc # "raised") =>
          \A f \in input :
              \/ outcome[f] # "none"
              \/ phase = "scan" /\ f \in todo
              \/ phase = "watch" /\ f \in Queued

\* C14: the program interrupted never exits inside a process_file call: the
\* document in flight has been saved and relocated when the program ends.
C14_ExitAfterInFlight == phase = "exited" => pc # "aborted"

\* C15: no process_file call begins while another is in progress: whenever a
\* thread stands where it takes its next entry, no call is in progress.
C15_OneAtATime ==
    /\ ~overlap
    /\ \A t \in Threads : AtLoop(t) => pc = "idle"

C15_Witness ==
    /\ Running("observer")
    /\ pc \in AppendPath
    /\ Queued \cap Files # {}

\* C19: every file in Processed has its invoice number in the persisted
\* ledger; a document whose call has not completed, or has ended in an
\* exception, is in Input; the move of the append path happens with the
\* record and one aggregate row in the persisted ledger.
C19_PersistBeforeRelocate ==
    /\ \A f \in processed : MaxByLen(Docs[f].invs) \in LedgerInvoiceTexts
    /\ \A f \in Files : outcome[f] \notin {"none", "Rejected", "Appended", "DuplicateSkipped"}
                            => f \in input
    /\ pc = "move" => /\ inv \in LedgerInvoiceTexts
                      /\ Cardinality(AggregateRows(excel.sheet)) = 1

C19_Witness ==
    /\ pc = "raised"
    /\ 1 \in appended /\ 1 \in processed
    /\ outcome[2] = "PermissionError" /\ 2 \in input
    /\ df # EmptyFrame

\* The case numbers among the matches, and the maximal runs of consecutive
\* numbers of a set.
MatchNums == {ParseInt(matches[i].num) : i \in 1..Len(matches)}

Runs(set) ==
    {r \in set \X set :
        /\ r[1] <= r[2]
        /\ \A n \in r[1]..r[2] : n \in set
        /\ (r[1] - 1) \notin set
        /\ (r[2] + 1) \notin set}

\* The runs of a set in ascending order, each written as one number or as
\* start-end, joined with ", ".
RunsText(set) ==
    LET starts == Sorted({r[1] : r \in Runs(set)})
        run(i) == CHOOSE r \in Runs(set) : r[1] = starts[i]
    IN  JoinStr(<<",", " ">>,
                [i \in 1..Len(starts) |->
                    IF run(i)[1] < run(i)[2]
                    THEN IntText(run(i)[1]) \o <<"-">> \o IntText(run(i)[2])
                    ELSE IntText(run(i)[1])])

\* The key the claims group under.
MentionKey(m) == <<Upper(m.case), m.year, Strip(m.court)>>

OneGroup == \A i \in 1..Len(matches) : MentionKey(matches[i]) = MentionKey(matches[1])

\* C16: for the matches of one group the rendering lists the maximal runs of
\* the deduplicated case numbers in ascending order, a run of one number as
\* that number and a longer one as start-end; {1,2,3,5,7,8,9} gives
\* "1-3, 5, 7-9" and {42} gives "42".
C16_RangeCompression ==
    /\ JoinStr(<<",", " ">>, Ranges(<<7, 1, 9, 2, 8, 3, 5, 2>>)) = <<"1", "-", "3", ",", " ", "5", ",", " ", "7", "-", "9">>
    /\ Ranges(<<42>>) = <<<<"4", "2">>>>
    /\ ("extract_particular" \in returned /\ Len(matches) > 0 /\ OneGroup) =>
          LET key == MentionKey(matches[1])
          IN  particular = Title(key[1]) \o <<" ", "N", "o", ".", " ">> \o RunsText(MatchNums)
                              \o <<" ", "o", "f", " ">> \o key[2] \o <<" ", "b", "e", "f", "o", "r", "e", " ", "t", "h", "e", " ">> \o key[3]

C16_Witness ==
    /\ "extract_particular" \in returned
    /\ Len(matches) = 3
    /\ OneGroup
    /\ MatchNums = {1, 2, 4}
    /\ matches[1].case # matches[2].case

\* C17: the matches with the same (upper-cased case type, year, trimmed
\* court) give one rendering and those with different ones separate
\* renderings, joined with "; " in the order in which the groups first
\* occur; no match gives the empty string.
C17_Grouping ==
    "extract_particular" \in returned =>
        LET keys == {MentionKey(matches[i]) : i \in 1..Len(matches)}
            members(k) == {i \in 1..Len(matches) : MentionKey(matches[i]) = k}
            first(k) == CHOOSE i \in members(k) : \A j \in members(k) : i <= j
            order == Sorted({first(k) : k \in keys})
            nums(k) == Sorted({ParseInt(matches[i].num) : i \in members(k)})
            key(n) == MentionKey(matches[order[n]])
        IN  /\ particular = JoinStr(<<";", " ">>, [n \in 1..Len(order) |-> Rendering(key(n), nums(key(n)))])
            /\ Len(matches) = 0 => particular = <<>>
            /\ Len(matches) > 0 =>
                  Cardinality({i \in 1..Len(particular) : particular[i] = ";"})
                      = Cardinality(keys) - 1

C17_Witness ==
    /\ "extract_particular" \in returned
    /\ Len(matches) = 3
    /\ MentionKey(matches[1]) = MentionKey(matches[3])
    /\ matches[1].case # matches[3].case
    /\ MentionKey(matches[1]) # MentionKey(matches[2])

\* C18: extract_amount returns the amount the first pattern of the cascade
\* that matches ends with, wherever the labels stand in the text, and zero
\* when no pattern matches.
C18_CascadePrecedence ==
    "extract_amount" \in returned =>
        /\ \A p \in 1..Len(Labels) :
              (Search(p, text) # 0 /\ \A q \in 1..(p - 1) : Search(q, text) = 0)
                  => amt = AmountOf(text[Search(p, text)])
        /\ (\A p \in 1..Len(Labels) : Search(p, text) = 0) => amt = 0

C18_Witness ==
    /\ "extract_amount" \in returned
    /\ text = <<<<"G", "R", "A", "N", "D", " ", "T", "O", "T", "A", "L">>, <<"8", "0", ".", "0", "0">>, <<"T", "o", "t", "a", "l", " ", "I", "n", "v", "o", "i", "c", "e", " ", "V", "a", "l", "u", "e">>, <<"1", ",", "2", "5", "0", ".", "0", "0">>>>
    /\ amt = 125000
====
